---- MODULE Spec2Model ----
(***************************************************************************)
(* State-machine model of graphics/graphics.go (package graphics): the     *)
(* viewport globals, the renderObjects registry, the RenderObject fields   *)
(* and the per-object vertex buffer behind obj.vao.                        *)
(*                                                                         *)
(* float32 values are modelled as exact rationals <<n, d>> in lowest terms *)
(* with d > 0; d = 0 encodes the non-finite results of a division by zero  *)
(* (<<1,0>> = +Inf, <<-1,0>> = -Inf, <<0,0>> = NaN).                        *)
(*                                                                         *)
(* The package gopengl/graphics/opengl (VAO, Texture) is modelled from its *)
(* description: a VAO holds a position buffer and a UV buffer of `size`    *)
(* vertex slots and the number of vertices to draw.                        *)
(***************************************************************************)
EXTENDS Integers, Sequences, FiniteSets, TLC

VARIABLES
    windowWidth,    \* var windowWidth float32
    windowHeight,   \* var windowHeight float32
    renderObjects,  \* var renderObjects []*RenderObject
    freeVert,       \* RenderObject.freeVert, per object
    maxVert,        \* RenderObject.maxVert, per object
    vao,            \* RenderObject.vao (the VAO it points to), NoVAO = nil
    texture,        \* RenderObject.texture, NoTexture = nil
    gpuStrict,      \* how the GL driver treats an invalid buffer write
    panicked,       \* the process has terminated in a panic
    ops,            \* number of operations the caller has made
    caller,         \* the objects and arguments the calling program uses
    adds,           \* history: AddSquare calls that returned, per object, since its creation
    returned,       \* history: the indices those calls returned
    everReturned,   \* history: the indices AddSquare ever returned, per object
    last            \* the most recent operation: name, arguments, result, GL calls

vars == <<windowWidth, windowHeight, renderObjects, freeVert, maxVert, vao,
          texture, gpuStrict, panicked, ops, caller, adds, returned, everReturned,
          last>>

(***************************************************************************)
(* Bounds of the model.                                                    *)
(***************************************************************************)
NumObjs == 2        \* RenderObject structs owned by the caller
MaxReg == 2         \* cap on len(renderObjects)
MaxSquares == 2     \* largest capacity, in squares
MaxOps == 4         \* operations the caller makes in one run

Objs == 1..NumObjs

\* the vertex slots of a buffer of uint32(size) slots that the model keeps
\* track of: all of them, or the first 6 * MaxSquares of the 2^32 + size
\* slots a negative size wraps to
SlotsOf(size) == IF size < 0 THEN 0..(6 * MaxSquares - 1) ELSE 0..(size - 1)

(***************************************************************************)
(* The calling program: the objects it owns and the arguments it passes.   *)
(* BufferCaller works on one object with varied capacities, geometry and   *)
(* indices; RegistryCaller works on all objects with one geometry;         *)
(* PixCaller(w, h) starts from the viewport w x h and passes its corners,  *)
(* its centre and the pixel (100, 100).                                    *)
(***************************************************************************)
Caller(objs, sizes, squares, indices, viewports, textures, trans, rots) ==
    [objs |-> objs,             \* the RenderObject structs it uses
     sizes |-> sizes,           \* size arguments of CreateRenderObject
     squares |-> squares,       \* <<(x, y, width), (xTex, yTex, widthTex)>>
     indices |-> indices,       \* index arguments of Modify*/ClearSquare
     viewports |-> viewports,   \* (width, height) arguments of SetWindowSize
     textures |-> textures,     \* (width, height) of the textures it names
     trans |-> trans,           \* (x, y) arguments of TranslateSquare
     rots |-> rots]             \* (x, y, rad) arguments of RotateSquare

\* capacities: negative, zero, not a multiple of 6, a multiple of 6;
\* indices: the first and the last square of the largest buffer, which lie
\* partly or wholly past the end of the smaller buffers
BufferCaller ==
    Caller({1},
           {-1, 0, 7, 6 * MaxSquares},
           {<<<<100, 100, 50>>, <<0, 0, 1>>>>, <<<<0, 0, 0>>, <<2, 4, 2>>>>},
           {0, 6 * (MaxSquares - 1)},
           {<<4, 2>>, <<0, 0>>},
           {<<2, 4>>},
           {<<1, 2>>},
           {<<0, 0, 1>>})

RegistryCaller ==
    Caller(Objs,
           {0, 6 * MaxSquares},
           {<<<<100, 100, 50>>, <<0, 0, 1>>>>},
           {0},
           {<<4, 2>>},
           {<<2, 4>>},
           {<<1, 2>>},
           {<<0, 0, 1>>})

\* all objects, one capacity and one geometry, two translations and two
\* rotations
TransformCaller ==
    Caller(Objs,
           {6},
           {<<<<100, 100, 50>>, <<0, 0, 1>>>>},
           {0},
           {<<4, 2>>},
           {<<2, 4>>},
           {<<1, 2>>, <<3, 4>>},
           {<<0, 0, 1>>, <<1, 1, 2>>})

PixViewports == {<<800, 600>>, <<4, 2>>, <<3, 5>>}

PixCaller(w, h) ==
    Caller({1},
           {6},
           {<<<<0, 0, 0>>, <<0, 0, 1>>>>,
            <<<<w \div 2, h \div 2, 0>>, <<0, 0, 1>>>>,
            <<<<w, h, 0>>, <<0, 0, 1>>>>,
            <<<<100, 100, 50>>, <<0, 0, 1>>>>},
           {0},
           PixViewports,
           {<<2, 4>>},
           {<<1, 2>>},
           {<<0, 0, 1>>})

\* the (x, y, width) and the (xTex, yTex, widthTex) arguments in use
PosArgs == {sq[1] : sq \in caller.squares}
TexArgs == {sq[2] : sq \in caller.squares}

(***************************************************************************)
(* float32 arithmetic on rationals.                                        *)
(***************************************************************************)
Abs(n) == IF n < 0 THEN -n ELSE n

Sgn(n) == IF n < 0 THEN -1 ELSE IF n > 0 THEN 1 ELSE 0

RECURSIVE GCD(_, _)
GCD(a, b) == IF b = 0 THEN a ELSE GCD(b, a % b)

\* the value n/d in lowest terms; a zero denominator gives +Inf, -Inf or NaN
Rat(n, d) ==
    IF d = 0 THEN <<Sgn(n), 0>>
    ELSE LET g == GCD(Abs(n), Abs(d))
             s == IF d < 0 THEN -1 ELSE 1
         IN  <<(s * n) \div g, (s * d) \div g>>

F(n) == <<n, 1>>

FAdd(a, b) == Rat(a[1] * b[2] + b[1] * a[2], a[2] * b[2])

FSub(a, b) == Rat(a[1] * b[2] - b[1] * a[2], a[2] * b[2])

FDiv(a, b) == Rat(a[1] * b[2], a[2] * b[1])

Zero == F(0)

(***************************************************************************)
(* The VAO and Texture of package opengl.                                  *)
(***************************************************************************)
NoVAO == [size |-> 0, vertNum |-> 0, verts |-> <<>>, texs |-> <<>>,
          deleted |-> FALSE, translation |-> <<>>, rotation |-> <<>>]

NoTexture == <<>>

Unwritten == <<>>

\* n <= uint32(size): a negative size wraps to a value of at least 2^31,
\* which exceeds every index the model uses
WithinUint32(n, size) == IF size < 0 THEN TRUE ELSE n <= size

\* opengl.CreateVAO(uint32(size), texture, defaultShader) and
\* vao.CreateBuffers(): empty buffers of uint32(size) vertex slots, nothing
\* to draw yet; the size field keeps the int, read through WithinUint32
CreateVAO(size) ==
    [size |-> size, vertNum |-> 0,
     verts |-> [s \in SlotsOf(size) |-> Unwritten],
     texs |-> [s \in SlotsOf(size) |-> Unwritten],
     deleted |-> FALSE, translation |-> <<>>, rotation |-> <<>>]

\* the pair stored in vertex slot k (0..5) of a quad given as 12 floats
SlotOf(coords, k) == <<coords[2 * k + 1], coords[2 * k + 2]>>

\* a buffer write of 6 vertices at index lands when the whole range lies in
\* the buffer of a VAO that has not been deleted; otherwise the write is
\* invalid: a strict driver rejects it, a lax one writes the slots that exist
WriteOk(v, index) ==
    /\ ~v.deleted
    /\ index >= 0
    /\ WithinUint32(index + 6, v.size)

WriteBuf(v, buf, index, coords) ==
    IF WriteOk(v, index) \/ ~gpuStrict
    THEN [s \in DOMAIN buf |->
            IF s >= index /\ s < index + 6 THEN SlotOf(coords, s - index) ELSE buf[s]]
    ELSE buf

\* vao.UpdateBufferIndex(index, verts, texs)
UpdateBufferIndex(v, index, verts, texs) ==
    [v EXCEPT !.verts = WriteBuf(v, v.verts, index, verts),
              !.texs = WriteBuf(v, v.texs, index, texs),
              !.vertNum = index + 6]

\* vao.UpdateVertBufferIndex(index, verts)
UpdateVertBufferIndex(v, index, verts) ==
    [v EXCEPT !.verts = WriteBuf(v, v.verts, index, verts)]

\* vao.UpdateTexBufferIndex(index, texs)
UpdateTexBufferIndex(v, index, texs) ==
    [v EXCEPT !.texs = WriteBuf(v, v.texs, index, texs)]

\* vao.SetTranslation(x, y): the translation applied at draw time is set
SetTranslation(v, tr) == [v EXCEPT !.translation = tr]

\* vao.SetRotation(x, y, rad): the rotation applied at draw time is set
SetRotation(v, ra) == [v EXCEPT !.rotation = ra]

\* texture.PixToTex(coords): alternating x, y divided by the texture's size
PixToTex(tex, coords) ==
    [i \in 1..Len(coords) |->
        IF i % 2 = 1 THEN FDiv(coords[i], F(tex[1])) ELSE FDiv(coords[i], F(tex[2]))]

(***************************************************************************)
(* Utility methods.                                                        *)
(***************************************************************************)
\* mutant of PixToScreenIn: `even` starts true, so the first value is
\* normalised by the half height
PixToScreenInOddFirst(w, h, coords) ==
    LET halfWidth == FDiv(w, F(2))
        halfHeight == FDiv(h, F(2))
    IN  [i \in 1..Len(coords) |->
            IF i % 2 = 0
            THEN FDiv(FSub(coords[i], halfWidth), halfWidth)
            ELSE FDiv(FSub(coords[i], halfHeight), halfHeight)]

\* PixToScreen with explicit viewport: `even` is true at the 1st, 3rd, ...
\* element (Go indices 0, 2, ...), which are normalised by the half width
PixToScreenIn(w, h, coords) ==
    LET halfWidth == FDiv(w, F(2))
        halfHeight == FDiv(h, F(2))
    IN  [i \in 1..Len(coords) |->
            IF i % 2 = 1
            THEN FDiv(FSub(coords[i], halfWidth), halfWidth)
            ELSE FDiv(FSub(coords[i], halfHeight), halfHeight)]

\* mutant of PixToScreen: the viewport of package initialisation is used
PixToScreenInitialViewport(coords) == PixToScreenIn(F(800), F(600), coords)

\* PixToScreen(coords): reads the viewport globals at the time of the call
PixToScreen(coords) == PixToScreenIn(windowWidth, windowHeight, coords)

(***************************************************************************)
(* Quad geometry.                                                          *)
(***************************************************************************)
\* verts of AddSquare
AddVerts(x, y, width) ==
    << x, y,
       FAdd(x, width), y,
       FAdd(x, width), FSub(y, width),
       x, y,
       FAdd(x, width), FSub(y, width),
       x, FSub(y, width) >>

\* verts of ModifyVertSquare
ModVerts(x, y, width) ==
    << x, y,
       FAdd(x, width), y,
       FAdd(x, width), FAdd(y, width),
       x, y,
       FAdd(x, width), FAdd(y, width),
       x, FAdd(y, width) >>

\* texs of AddSquare and of ModifyTexSquare
TexCoords(xTex, yTex, widthTex) ==
    << xTex, yTex,
       FAdd(xTex, widthTex), yTex,
       FAdd(xTex, widthTex), FAdd(yTex, widthTex),
       xTex, yTex,
       FAdd(xTex, widthTex), FAdd(yTex, widthTex),
       xTex, FAdd(yTex, widthTex) >>

(***************************************************************************)
(* The record of the most recent operation.                                *)
(***************************************************************************)
Call(f, o, n) == [f |-> f, o |-> o, n |-> n]

Op(name, o, index, args, ret, calls) ==
    [op |-> name, obj |-> o, index |-> index, args |-> args, ret |-> ret,
     calls |-> calls]

\* the operation returned no value
NoRet == <<>>

\* the process runs and the caller makes one more call
Running == ~panicked /\ ops < MaxOps

\* the state after package initialisation, for a calling program c and a
\* first viewport (w, h)
InitWith(c, w, h) ==
    /\ windowWidth = F(w)
    /\ windowHeight = F(h)
    /\ renderObjects = <<>>
    /\ freeVert = [o \in Objs |-> 0]
    /\ maxVert = [o \in Objs |-> 0]
    /\ vao = [o \in Objs |-> NoVAO]
    /\ texture = [o \in Objs |-> NoTexture]
    /\ gpuStrict \in BOOLEAN
    /\ panicked = FALSE
    /\ ops = 0
    /\ caller = c
    /\ adds = [o \in Objs |-> 0]
    /\ returned = [o \in Objs |-> {}]
    /\ everReturned = [o \in Objs |-> {}]
    /\ last = Op("Init", 0, 0, <<>>, NoRet, <<>>)

\* var windowWidth float32 = 800; var windowHeight float32 = 600
Init == InitWith(BufferCaller, 800, 600)

InitRegistry == InitWith(RegistryCaller, 800, 600)

InitTransform == InitWith(TransformCaller, 800, 600)

\* the program has called SetWindowSize(w, h) before anything else
InitPix == \E vp \in PixViewports : InitWith(PixCaller(vp[1], vp[2]), vp[1], vp[2])

\* SetWindowSize(width, height)
SetWindowSize(vp) ==
    /\ Running
    /\ ops' = ops + 1
    /\ windowWidth' = F(vp[1])
    /\ windowHeight' = F(vp[2])
    /\ last' = Op("SetWindowSize", 0, 0, vp, NoRet, <<>>)
    /\ UNCHANGED <<renderObjects, freeVert, maxVert, vao, texture, gpuStrict, panicked, caller, adds, returned, everReturned>>

\* CreateRenderObject(obj, size, texture, defaultShader)
CreateRenderObject(o, size, tex) ==
    /\ Running
    /\ ops' = ops + 1
    /\ Len(renderObjects) < MaxReg
    /\ vao' = [vao EXCEPT ![o] = CreateVAO(size)]
    /\ texture' = [texture EXCEPT ![o] = tex]
    /\ freeVert' = [freeVert EXCEPT ![o] = 0]
    /\ maxVert' = [maxVert EXCEPT ![o] = size]
    /\ renderObjects' = Append(renderObjects, o)
    /\ last' = Op("CreateRenderObject", o, 0, <<size>>, NoRet,
                  <<Call("CreateVAO", o, size)>>)
    /\ adds' = [adds EXCEPT ![o] = 0]
    /\ returned' = [returned EXCEPT ![o] = {}]
    /\ UNCHANGED everReturned
    /\ UNCHANGED <<windowWidth, windowHeight, gpuStrict, panicked, caller>>

\* CreateRenderObject when opengl.CreateVAO or vao.CreateBuffers fails fatally
\* (the buffer cannot be allocated, the texture cannot be located): nothing
\* has been assigned or registered yet
CreateRenderObjectFails(o, size, tex) ==
    /\ Running
    /\ ops' = ops + 1
    /\ Len(renderObjects) < MaxReg
    /\ panicked' = TRUE
    /\ last' = Op("CreateRenderObject", o, 0, <<size>>, NoRet,
                  <<Call("CreateVAO", o, size)>>)
    /\ UNCHANGED <<windowWidth, windowHeight, renderObjects, freeVert, maxVert, vao,
                   texture, gpuStrict, caller, adds, returned, everReturned>>

\* the obj.vao / obj.texture pointers are set: the object has been created
Created(o) == vao[o] # NoVAO

\* obj.AddSquare(x, y, xTex, yTex, width, widthTex): the converted verts
AddSquareVerts(pa) == PixToScreen(AddVerts(F(pa[1]), F(pa[2]), F(pa[3])))

\* obj.AddSquare: the converted texs (also those of ModifyTexSquare)
SquareTexs(o, ta) == PixToTex(texture[o], TexCoords(F(ta[1]), F(ta[2]), F(ta[3])))

\* mutant of Overflow: the check made with >= instead of >
OverflowOffByOne(o) == freeVert[o] + 6 >= maxVert[o]

\* the overflow check of AddSquare
Overflow(o) == freeVert[o] + 6 > maxVert[o]

\* mutant of AddSquare: returns obj.freeVert after the advance
AddSquareReturnsNext(o, pa, ta) ==
    /\ Running
    /\ ops' = ops + 1
    /\ Created(o)
    /\ ~Overflow(o)
    /\ vao' = [vao EXCEPT ![o] =
                 UpdateBufferIndex(vao[o], freeVert[o], AddSquareVerts(pa), SquareTexs(o, ta))]
    /\ freeVert' = [freeVert EXCEPT ![o] = freeVert[o] + 6]
    /\ last' = Op("AddSquare", o, freeVert[o], <<pa, ta>>, freeVert'[o],
                  <<Call("UpdateBufferIndex", o, freeVert[o])>>)
    /\ adds' = [adds EXCEPT ![o] = adds[o] + 1]
    /\ returned' = [returned EXCEPT ![o] = returned[o] \cup {freeVert'[o]}]
    /\ everReturned' = [everReturned EXCEPT ![o] = everReturned[o] \cup {freeVert'[o]}]
    /\ UNCHANGED <<windowWidth, windowHeight, renderObjects, maxVert, texture,
                   gpuStrict, panicked, caller>>

\* obj.AddSquare(...) when the check passes: write at freeVert, advance by 6,
\* return the index of the first vertex written
AddSquare(o, pa, ta) ==
    /\ Running
    /\ ops' = ops + 1
    /\ Created(o)
    /\ ~Overflow(o)
    /\ vao' = [vao EXCEPT ![o] =
                 UpdateBufferIndex(vao[o], freeVert[o], AddSquareVerts(pa), SquareTexs(o, ta))]
    /\ freeVert' = [freeVert EXCEPT ![o] = freeVert[o] + 6]
    /\ last' = Op("AddSquare", o, freeVert[o], <<pa, ta>>, freeVert'[o] - 6,
                  <<Call("UpdateBufferIndex", o, freeVert[o])>>)
    /\ adds' = [adds EXCEPT ![o] = adds[o] + 1]
    /\ returned' = [returned EXCEPT ![o] = returned[o] \cup {freeVert'[o] - 6}]
    /\ everReturned' = [everReturned EXCEPT ![o] = everReturned[o] \cup {freeVert'[o] - 6}]
    /\ UNCHANGED <<windowWidth, windowHeight, renderObjects, maxVert, texture,
                   gpuStrict, panicked, caller>>

\* mutant of AddSquareOverflow: the check is made after the buffer write
AddSquareOverflowAfterWrite(o, pa, ta) ==
    /\ Running
    /\ ops' = ops + 1
    /\ Created(o)
    /\ Overflow(o)
    /\ vao' = [vao EXCEPT ![o] =
                 UpdateBufferIndex(vao[o], freeVert[o], AddSquareVerts(pa), SquareTexs(o, ta))]
    /\ panicked' = TRUE
    /\ last' = Op("AddSquare", o, freeVert[o], <<pa, ta>>, NoRet,
                  <<Call("UpdateBufferIndex", o, freeVert[o])>>)
    /\ UNCHANGED <<windowWidth, windowHeight, renderObjects, freeVert, maxVert,
                   texture, gpuStrict, caller, adds, returned, everReturned>>

\* obj.AddSquare(...) when the check fails: panic("Render Object Buffer overflow")
AddSquareOverflow(o, pa, ta) ==
    /\ Running
    /\ ops' = ops + 1
    /\ Created(o)
    /\ Overflow(o)
    /\ panicked' = TRUE
    /\ last' = Op("AddSquare", o, freeVert[o], <<pa, ta>>, NoRet, <<>>)
    /\ UNCHANGED <<windowWidth, windowHeight, renderObjects, freeVert, maxVert, vao,
                   texture, gpuStrict, caller, adds, returned, everReturned>>

\* mutant of VertModified: the positions are written to both buffers
VertModifiedWritesBoth(v, index, pa) ==
    LET verts == PixToScreen(ModVerts(F(pa[1]), F(pa[2]), F(pa[3])))
    IN  [v EXCEPT !.verts = WriteBuf(v, v.verts, index, verts),
                  !.texs = WriteBuf(v, v.texs, index, verts)]

\* the VAO after obj.ModifyVertSquare(index, x, y, width)
VertModified(v, index, pa) ==
    UpdateVertBufferIndex(v, index, PixToScreen(ModVerts(F(pa[1]), F(pa[2]), F(pa[3]))))

\* mutant of TexModified: the UVs are written to the position buffer
TexModifiedWritesVerts(v, o, index, ta) ==
    UpdateVertBufferIndex(v, index, SquareTexs(o, ta))

\* the VAO after obj.ModifyTexSquare(index, xTex, yTex, widthTex)
TexModified(v, o, index, ta) ==
    UpdateTexBufferIndex(v, index, SquareTexs(o, ta))

\* the VAO after obj.ModifySquare(index, ...): ModifyVertSquare, then ModifyTexSquare
SquareModified(v, o, index, pa, ta) ==
    TexModified(VertModified(v, index, pa), o, index, ta)

\* mutant of ModifyVertSquare: the index is taken as the end of the quad
ModifyVertSquareAtNext(o, index, pa) ==
    /\ Running
    /\ ops' = ops + 1
    /\ Created(o)
    /\ vao' = [vao EXCEPT ![o] = VertModified(vao[o], index + 6, pa)]
    /\ last' = Op("ModifyVertSquare", o, index, <<pa>>, NoRet,
                  <<Call("UpdateVertBufferIndex", o, index + 6)>>)
    /\ UNCHANGED <<windowWidth, windowHeight, renderObjects, freeVert, maxVert,
                   texture, gpuStrict, panicked, caller, adds, returned, everReturned>>

\* obj.ModifyVertSquare(index, x, y, width)
ModifyVertSquare(o, index, pa) ==
    /\ Running
    /\ ops' = ops + 1
    /\ Created(o)
    /\ vao' = [vao EXCEPT ![o] = VertModified(vao[o], index, pa)]
    /\ last' = Op("ModifyVertSquare", o, index, <<pa>>, NoRet,
                  <<Call("UpdateVertBufferIndex", o, index)>>)
    /\ UNCHANGED <<windowWidth, windowHeight, renderObjects, freeVert, maxVert,
                   texture, gpuStrict, panicked, caller, adds, returned, everReturned>>

\* obj.ModifyTexSquare(index, xTex, yTex, widthTex)
ModifyTexSquare(o, index, ta) ==
    /\ Running
    /\ ops' = ops + 1
    /\ Created(o)
    /\ vao' = [vao EXCEPT ![o] = TexModified(vao[o], o, index, ta)]
    /\ last' = Op("ModifyTexSquare", o, index, <<ta>>, NoRet,
                  <<Call("UpdateTexBufferIndex", o, index)>>)
    /\ UNCHANGED <<windowWidth, windowHeight, renderObjects, freeVert, maxVert,
                   texture, gpuStrict, panicked, caller, adds, returned, everReturned>>

\* obj.ModifySquare(index, x, y, xTex, yTex, width, widthTex)
ModifySquare(o, index, pa, ta) ==
    /\ Running
    /\ ops' = ops + 1
    /\ Created(o)
    /\ vao' = [vao EXCEPT ![o] = SquareModified(vao[o], o, index, pa, ta)]
    /\ last' = Op("ModifySquare", o, index, <<pa, ta>>, NoRet,
                  <<Call("UpdateVertBufferIndex", o, index),
                    Call("UpdateTexBufferIndex", o, index)>>)
    /\ UNCHANGED <<windowWidth, windowHeight, renderObjects, freeVert, maxVert,
                   texture, gpuStrict, panicked, caller, adds, returned, everReturned>>

\* mutant of ClearArgs: a width is passed on
ClearArgsWithWidth == <<0, 0, 50>>

\* the arguments ClearSquare passes to ModifyVertSquare
ClearArgs == <<0, 0, 0>>

\* mutant of ClearSquare: the cleared square is given back to the free pool
ClearSquareFreesSlots(o, index) ==
    /\ Running
    /\ ops' = ops + 1
    /\ Created(o)
    /\ vao' = [vao EXCEPT ![o] = VertModified(vao[o], index, <<0, 0, 0>>)]
    /\ freeVert' = [freeVert EXCEPT ![o] = IF freeVert[o] >= 6 THEN freeVert[o] - 6 ELSE 0]
    /\ last' = Op("ClearSquare", o, index, <<>>, NoRet,
                  <<Call("UpdateVertBufferIndex", o, index)>>)
    /\ UNCHANGED <<windowWidth, windowHeight, renderObjects, maxVert,
                   texture, gpuStrict, panicked, caller, adds, returned, everReturned>>

\* obj.ClearSquare(index)
ClearSquare(o, index) ==
    /\ Running
    /\ ops' = ops + 1
    /\ Created(o)
    /\ vao' = [vao EXCEPT ![o] = VertModified(vao[o], index, ClearArgs)]
    /\ last' = Op("ClearSquare", o, index, <<>>, NoRet,
                  <<Call("UpdateVertBufferIndex", o, index)>>)
    /\ UNCHANGED <<windowWidth, windowHeight, renderObjects, freeVert, maxVert,
                   texture, gpuStrict, panicked, caller, adds, returned, everReturned>>

\* obj.RotateSquare(x, y, rad): vao.SetRotation
RotateSquare(o, ra) ==
    /\ Running
    /\ ops' = ops + 1
    /\ Created(o)
    /\ vao' = [vao EXCEPT ![o] = SetRotation(vao[o], ra)]
    /\ last' = Op("RotateSquare", o, 0, ra, NoRet, <<Call("SetRotation", o, 0)>>)
    /\ UNCHANGED <<windowWidth, windowHeight, renderObjects, freeVert, maxVert,
                   texture, gpuStrict, panicked, caller, adds, returned, everReturned>>

\* mutant of TranslateSquare: the translation is added to the active one
TranslateSquareComposes(o, tr) ==
    /\ Running
    /\ ops' = ops + 1
    /\ Created(o)
    /\ vao' = [vao EXCEPT ![o] =
                 SetTranslation(vao[o],
                                IF vao[o].translation = <<>> THEN tr
                                ELSE <<vao[o].translation[1] + tr[1],
                                       vao[o].translation[2] + tr[2]>>)]
    /\ last' = Op("TranslateSquare", o, 0, tr, NoRet, <<Call("SetTranslation", o, 0)>>)
    /\ UNCHANGED <<windowWidth, windowHeight, renderObjects, freeVert, maxVert,
                   texture, gpuStrict, panicked, caller, adds, returned, everReturned>>

\* obj.TranslateSquare(x, y): vao.SetTranslation
TranslateSquare(o, tr) ==
    /\ Running
    /\ ops' = ops + 1
    /\ Created(o)
    /\ vao' = [vao EXCEPT ![o] = SetTranslation(vao[o], tr)]
    /\ last' = Op("TranslateSquare", o, 0, tr, NoRet, <<Call("SetTranslation", o, 0)>>)
    /\ UNCHANGED <<windowWidth, windowHeight, renderObjects, freeVert, maxVert,
                   texture, gpuStrict, panicked, caller, adds, returned, everReturned>>

\* obj.PrepRender(): vao.PrepRender(), the number of vertices to draw
PrepRender(o) == vao[o].vertNum

\* mutant of ObjRender: the whole buffer is drawn
ObjRenderWholeBuffer(o) == <<Call("DrawArrays", o, maxVert[o])>>

\* obj.Render(): PrepRender, gl.DrawArrays(gl.TRIANGLES, 0, vertNum), FinishRender
ObjRender(o) == <<Call("DrawArrays", o, PrepRender(o))>>

\* mutant of RenderEach: the registry is walked from its end
RECURSIVE RenderEachBackwards(_)
RenderEachBackwards(objs) ==
    IF objs = <<>> THEN <<>>
    ELSE RenderEachBackwards(Tail(objs)) \o <<Call("DrawArrays", Head(objs), vao[Head(objs)].vertNum)>>

\* the calls of `for _, obj := range objs { obj.Render() }`
RECURSIVE RenderEach(_)
RenderEach(objs) ==
    IF objs = <<>> THEN <<>> ELSE ObjRender(Head(objs)) \o RenderEach(Tail(objs))

\* mutant of RenderCalls: the window is polled before the objects are rendered
RenderCallsPollFirst ==
    <<Call("Clear", 0, 0), Call("Poll", 0, 0)>> \o RenderEach(renderObjects)

\* Render(): clear, render every registered object, Poll(window)
RenderCalls == <<Call("Clear", 0, 0)>> \o RenderEach(renderObjects) \o <<Call("Poll", 0, 0)>>

Render ==
    /\ Running
    /\ ops' = ops + 1
    /\ last' = Op("Render", 0, 0, <<>>, NoRet, RenderCalls)
    /\ UNCHANGED <<windowWidth, windowHeight, renderObjects, freeVert, maxVert, vao,
                   texture, gpuStrict, panicked, caller, adds, returned, everReturned>>

\* the calls of `for _, obj := range objs { obj.Delete() }`
RECURSIVE DeleteEach(_)
DeleteEach(objs) ==
    IF objs = <<>> THEN <<>> ELSE <<Call("Delete", Head(objs), 0)>> \o DeleteEach(Tail(objs))

\* the objects of the registry
Registered == {renderObjects[i] : i \in 1..Len(renderObjects)}

\* mutant of DeleteRenderObjects: the registry is emptied after the loop
DeleteRenderObjectsAndClear ==
    /\ Running
    /\ ops' = ops + 1
    /\ vao' = [o \in Objs |->
                 IF o \in Registered THEN [vao[o] EXCEPT !.deleted = TRUE] ELSE vao[o]]
    /\ renderObjects' = <<>>
    /\ last' = Op("DeleteRenderObjects", 0, 0, <<>>, NoRet, DeleteEach(renderObjects))
    /\ UNCHANGED <<windowWidth, windowHeight, freeVert, maxVert,
                   texture, gpuStrict, panicked, caller, adds, returned, everReturned>>

\* DeleteRenderObjects(): obj.Delete() on every entry; the registry is kept
DeleteRenderObjects ==
    /\ Running
    /\ ops' = ops + 1
    /\ vao' = [o \in Objs |->
                 IF o \in Registered THEN [vao[o] EXCEPT !.deleted = TRUE] ELSE vao[o]]
    /\ last' = Op("DeleteRenderObjects", 0, 0, <<>>, NoRet, DeleteEach(renderObjects))
    /\ UNCHANGED <<windowWidth, windowHeight, renderObjects, freeVert, maxVert,
                   texture, gpuStrict, panicked, caller, adds, returned, everReturned>>

(***************************************************************************)
(* Helpers of the properties.                                              *)
(***************************************************************************)
\* the step just taken is a call of operation `name`
Did(name) == ops' = ops + 1 /\ last'.op = name

\* the object can still be used: its VAO has not been deleted
Live(o) == Created(o) /\ ~vao[o].deleted

\* C1: every render object satisfies 0 <= freeVert <= maxVert, whatever
\* capacity it was created with
C1_FreeVertWithinMaxVert ==
    \A o \in Objs : Created(o) => 0 <= freeVert[o] /\ freeVert[o] <= maxVert[o]

\* C2: an AddSquare call panics exactly when freeVert + 6 > maxVert at the
\* time of the call; on an object created with capacity 6*N the call that
\* panics is the one made after exactly N calls have returned
C2_OverflowExactlyWhenFull ==
    [][\A o \in Objs :
          (Did("AddSquare") /\ last'.obj = o) =>
              /\ panicked' <=> (freeVert[o] + 6 > maxVert[o])
              /\ (maxVert[o] >= 0 /\ maxVert[o] % 6 = 0) =>
                     (panicked' <=> adds[o] = maxVert[o] \div 6)]_vars

\* capacity 12: two calls returned, the third one panicked
C2_Witness ==
    \E o \in Objs :
        /\ last.op = "AddSquare" /\ last.obj = o /\ panicked
        /\ maxVert[o] = 12 /\ adds[o] = 2

\* the slots s of buffer buf with lo <= s < hi hold the quad `coords`
\* written at lo
HoldsQuad(buf, lo, coords) ==
    \A k \in 0..5 : (lo + k) \in DOMAIN buf /\ buf[lo + k] = SlotOf(coords, k)

\* buffers old and new agree outside the slots [lo, lo + 6)
SameOutside(old, new, lo) ==
    /\ DOMAIN new = DOMAIN old
    /\ \A s \in DOMAIN old : (s < lo \/ s >= lo + 6) => new[s] = old[s]

IsDraw(c) == c.f = "DrawArrays"
Draws(calls) == SelectSeq(calls, IsDraw)

\* C4: one call of Render issues exactly one draw call per entry of the
\* registry, and the vertex count of each is the current freeVert of the
\* entry's object (never maxVert when freeVert < maxVert)
C4_OneDrawPerEntryUpToFreeVert ==
    last.op = "Render" =>
        /\ Len(Draws(last.calls)) = Len(renderObjects)
        /\ \A i \in 1..Len(renderObjects) :
              Draws(last.calls)[i] =
                  Call("DrawArrays", renderObjects[i], freeVert[renderObjects[i]])

\* a frame with two objects, one partly filled and one empty
C4_Witness ==
    /\ last.op = "Render"
    /\ Len(renderObjects) = 2
    /\ renderObjects[1] # renderObjects[2]
    /\ \E o \in Registered : 0 < freeVert[o] /\ freeVert[o] < maxVert[o]
    /\ \E o \in Registered : freeVert[o] = 0 /\ maxVert[o] > 0

\* the operations that are claimed to leave freeVert alone
KeepFreeVert == {"ModifyVertSquare", "ModifyTexSquare", "ModifySquare", "ClearSquare",
                 "Render", "TranslateSquare", "RotateSquare"}

\* C5 as stated: across any public operation the freeVert of a render
\* object does not decrease, and only an AddSquare call changes it
C5_FreeVertNeverDecreases ==
    [][\A o \in Objs :
          /\ freeVert'[o] >= freeVert[o]
          /\ freeVert'[o] # freeVert[o] => Did("AddSquare")]_vars

\* C5 amended: the freeVert of a render object is set to 0 by every
\* CreateRenderObject call on it, also by one made on an object that already
\* holds squares; across every other operation it does not decrease: the
\* only change is +6 by an AddSquare call on that object that returns, and the
\* Modify*, ClearSquare, Render, TranslateSquare and RotateSquare calls leave
\* it unchanged
C5_FreeVertDecreasesOnlyOnCreate ==
    [][\A o \in Objs :
          IF Did("CreateRenderObject") /\ last'.obj = o
          THEN panicked' \/ freeVert'[o] = 0
          ELSE /\ freeVert'[o] >= freeVert[o]
               /\ freeVert'[o] # freeVert[o] =>
                      /\ Did("AddSquare") /\ last'.obj = o /\ ~panicked'
                      /\ freeVert'[o] = freeVert[o] + 6
               /\ last'.op \in KeepFreeVert => freeVert'[o] = freeVert[o]]_vars

\* an object was created a second time, a square was added to it, and a
\* call that keeps freeVert followed
C5_Witness ==
    \E o \in Objs :
        /\ renderObjects = <<o, o>>
        /\ last.op \in KeepFreeVert /\ last.obj = o
        /\ freeVert[o] = 6

\* the frame of a ClearSquare(index) on o: UVs, the positions outside
\* [index, index + 6), freeVert and the other objects are as before
ClearFrame(o, index) ==
    /\ vao'[o].texs = vao[o].texs
    /\ SameOutside(vao[o].verts, vao'[o].verts, index)
    /\ freeVert' = freeVert
    /\ \A p \in Objs \ {o} : vao'[p] = vao[p]

\* a ClearSquare(i) on a live object o with i returned by AddSquare
ClearsAllocated(o) ==
    Did("ClearSquare") /\ last'.obj = o /\ last'.index \in returned[o] /\ Live(o)

\* C6 as stated: after ClearSquare(i), i returned by AddSquare, the 6 stored
\* positions of [i, i+6) are equal and at the origin (0, 0), and no other
\* stored position or UV, nor freeVert, has changed
C6_ClearedQuadStoredAtOrigin ==
    [][\A o \in Objs :
          ClearsAllocated(o) =>
              /\ \A k \in 0..5 : vao'[o].verts[last'.index + k] = <<Zero, Zero>>
              /\ ClearFrame(o, last'.index)]_vars

\* C6 amended: after ClearSquare(i), i returned by AddSquare, the 6 stored
\* positions of [i, i+6) are equal: they are the device-space image of the
\* pixel (0, 0), which is (-1, -1) for a viewport of positive width and
\* height; no other stored position or UV, nor freeVert, has changed
C6_ClearedQuadCollapsed ==
    [][\A o \in Objs :
          ClearsAllocated(o) =>
              LET i == last'.index
                  image == PixToScreen(<<Zero, Zero>>)
              IN
              /\ \A k \in 0..5 : vao'[o].verts[i + k] = vao'[o].verts[i]
              /\ vao'[o].verts[i] = <<image[1], image[2]>>
              /\ (windowWidth[1] > 0 /\ windowHeight[1] > 0) =>
                     vao'[o].verts[i] = <<F(-1), F(-1)>>
              /\ ClearFrame(o, i)]_vars

\* the first of two squares has been cleared, the second still has its area
C6_Witness ==
    \E o \in Objs :
        /\ last.op = "ClearSquare" /\ last.obj = o /\ last.index = 0
        /\ returned[o] = {0, 6} /\ Live(o)
        /\ vao[o].verts[0] = <<F(-1), F(-1)>>
        /\ vao[o].verts[6] # vao[o].verts[7]

\* C7: the VAO after ModifySquare(index, x, y, xTex, yTex, width, widthTex)
\* is the VAO after ModifyVertSquare(index, x, y, width) followed by
\* ModifyTexSquare(index, xTex, yTex, widthTex), and also the VAO after the
\* two calls in the opposite order; nothing else changes
C7_ModifySquareIsBothInAnyOrder ==
    [][\A o \in Objs :
          (Did("ModifySquare") /\ last'.obj = o) =>
              LET i == last'.index
                  pa == last'.args[1]
                  ta == last'.args[2]
              IN
              /\ vao'[o] = TexModified(VertModified(vao[o], i, pa), o, i, ta)
              /\ vao'[o] = VertModified(TexModified(vao[o], o, i, ta), i, pa)
              /\ \A p \in Objs \ {o} : vao'[p] = vao[p]
              /\ UNCHANGED <<freeVert, maxVert, renderObjects, windowWidth, windowHeight>>]_vars

\* a ModifySquare has rewritten the positions and the UVs of an allocated square
C7_Witness ==
    \E o \in Objs :
        /\ last.op = "ModifySquare" /\ last.obj = o /\ last.index \in returned[o]
        /\ Live(o)
        /\ HoldsQuad(vao[o].verts, last.index,
                     PixToScreen(ModVerts(F(100), F(100), F(50))))
        /\ HoldsQuad(vao[o].texs, last.index, SquareTexs(o, <<0, 0, 1>>))

\* r is w * (2 * v - s) / s, the value of (v - s/2) / (s/2)
IsNormalised(r, v, s) == r[2] > 0 /\ r[1] * s = r[2] * (2 * v - s)

\* r rounded to thousandths, in thousandths
Milli(r) == (2000 * r[1] + r[2]) \div (2 * r[2])

\* C8: for a viewport w x h with w, h > 0, PixToScreen maps each value at an
\* even position to (x - w/2)/(w/2) and each value at an odd position to
\* (y - h/2)/(h/2): (w/2, h/2) to (0, 0), (0, 0) to (-1, -1), (w, h) to
\* (1, 1); the first position AddSquare(x, y, ...) stores is the image of
\* (x, y): for the viewport 800 x 600 and (100, 100) it is (-0.75, -0.667)
C8_PixToScreenNormalises ==
    LET w == windowWidth[1]
        h == windowHeight[1]
    IN  (w > 0 /\ h > 0) =>
        /\ \A pa \in PosArgs :
              LET out == PixToScreen(<<F(pa[1]), F(pa[2]), F(pa[1] + pa[3]), F(pa[2] - pa[3])>>)
              IN  /\ IsNormalised(out[1], pa[1], w)
                  /\ IsNormalised(out[2], pa[2], h)
                  /\ IsNormalised(out[3], pa[1] + pa[3], w)
                  /\ IsNormalised(out[4], pa[2] - pa[3], h)
        /\ (w % 2 = 0 /\ h % 2 = 0) =>
               PixToScreen(<<F(w \div 2), F(h \div 2)>>) = <<Zero, Zero>>
        /\ PixToScreen(<<Zero, Zero>>) = <<F(-1), F(-1)>>
        /\ PixToScreen(<<F(w), F(h)>>) = <<F(1), F(1)>>
        /\ \A o \in Objs :
              (last.op = "AddSquare" /\ last.obj = o /\ ~panicked /\ Live(o)) =>
                  LET first == vao[o].verts[last.ret]
                      x == last.args[1][1]
                      y == last.args[1][2]
                  IN  /\ IsNormalised(first[1], x, w)
                      /\ IsNormalised(first[2], y, h)
                      /\ (w = 800 /\ h = 600 /\ x = 100 /\ y = 100) =>
                             /\ first = <<Rat(-3, 4), Rat(-2, 3)>>
                             /\ Milli(first[1]) = -750
                             /\ Milli(first[2]) = -667

\* AddSquare(100, 100, ...) has stored its first position under 800 x 600
C8_Witness ==
    \E o \in Objs :
        /\ last.op = "AddSquare" /\ last.obj = o /\ ~panicked /\ Live(o)
        /\ windowWidth = F(800) /\ windowHeight = F(600)
        /\ last.args[1] = <<100, 100, 50>>
        /\ vao[o].verts[last.ret] = <<Rat(-3, 4), Rat(-2, 3)>>

\* s is a prefix of t
IsPrefix(s, t) == Len(s) <= Len(t) /\ \A i \in 1..Len(s) : s[i] = t[i]

\* the objects of a sequence of calls, in order
ObjectsOf(calls) == [i \in 1..Len(calls) |-> calls[i].o]

\* C9: the registry is append-only and insertion-ordered: a CreateRenderObject
\* that returns appends its object at the end, no operation removes or
\* reorders entries, and Render draws the entries in registry order
C9_RegistryAppendOnlyInOrder ==
    [][/\ IsPrefix(renderObjects, renderObjects')
       /\ IF Did("CreateRenderObject") /\ ~panicked'
          THEN renderObjects' = Append(renderObjects, last'.obj)
          ELSE renderObjects' = renderObjects
       /\ Did("Render") => ObjectsOf(Draws(last'.calls)) = renderObjects]_vars

\* object 2 was created before object 1 and is drawn before it
C9_Witness ==
    /\ last.op = "Render"
    /\ renderObjects = <<2, 1>>
    /\ ObjectsOf(Draws(last.calls)) = <<2, 1>>

\* C10: DeleteRenderObjects invokes Delete on every entry of the registry and
\* leaves the registry (entries and order) and every freeVert and maxVert as
\* they were
C10_DeleteAllKeepsRegistry ==
    [][Did("DeleteRenderObjects") =>
          /\ last'.calls = [i \in 1..Len(renderObjects) |->
                               Call("Delete", renderObjects[i], 0)]
          /\ \A o \in Registered : vao'[o].deleted
          /\ renderObjects' = renderObjects
          /\ freeVert' = freeVert
          /\ maxVert' = maxVert]_vars

\* two objects, one of them holding a square, have been deleted
C10_Witness ==
    /\ last.op = "DeleteRenderObjects"
    /\ renderObjects = <<1, 2>>
    /\ \A o \in Registered : vao[o].deleted
    /\ \E o \in Registered : freeVert[o] = 6

\* the VAO fields other than the two buffers, and everything outside object
\* o, are as before the step
OnlyBuffersOf(o) ==
    /\ [vao'[o] EXCEPT !.verts = vao[o].verts, !.texs = vao[o].texs] = vao[o]
    /\ \A p \in Objs \ {o} : vao'[p] = vao[p]
    /\ UNCHANGED <<freeVert, maxVert, texture, renderObjects, windowWidth, windowHeight>>

\* C11: ModifyVertSquare(index, ...) issues one position-buffer write at
\* index: it changes no stored position outside [index, index+6) and no
\* stored UV, and on a live object with an allocated index the 6 slots hold
\* the new positions; ModifyTexSquare(index, ...) issues one UV-buffer write
\* at index: it changes no stored UV outside [index, index+6) and no stored
\* position, and the 6 slots hold the new UVs
C11_ModifyWritesOnlyItsBuffer ==
    [][\A o \in Objs :
          /\ (Did("ModifyVertSquare") /\ last'.obj = o) =>
                LET i == last'.index
                    pa == last'.args[1]
                IN
                /\ last'.calls = <<Call("UpdateVertBufferIndex", o, i)>>
                /\ vao'[o].texs = vao[o].texs
                /\ SameOutside(vao[o].verts, vao'[o].verts, i)
                /\ (Live(o) /\ i \in returned[o]) =>
                       HoldsQuad(vao'[o].verts, i,
                                 PixToScreen(ModVerts(F(pa[1]), F(pa[2]), F(pa[3]))))
                /\ OnlyBuffersOf(o)
          /\ (Did("ModifyTexSquare") /\ last'.obj = o) =>
                LET i == last'.index
                    ta == last'.args[1]
                IN
                /\ last'.calls = <<Call("UpdateTexBufferIndex", o, i)>>
                /\ vao'[o].verts = vao[o].verts
                /\ SameOutside(vao[o].texs, vao'[o].texs, i)
                /\ (Live(o) /\ i \in returned[o]) =>
                       HoldsQuad(vao'[o].texs, i, SquareTexs(o, ta))
                /\ OnlyBuffersOf(o)]_vars

\* the positions of an allocated square were rewritten, then its UVs: the
\* slots hold the geometry of ModifyVertSquare and the UVs of ModifyTexSquare
C11_Witness ==
    \E o \in Objs :
        /\ last.op = "ModifyTexSquare" /\ last.obj = o /\ last.index = 0
        /\ 0 \in returned[o] /\ Live(o)
        /\ last.args[1] = <<2, 4, 2>>
        /\ HoldsQuad(vao[o].texs, 0, SquareTexs(o, <<2, 4, 2>>))
        /\ HoldsQuad(vao[o].verts, 0, PixToScreen(ModVerts(F(100), F(100), F(50))))
        /\ vao[o].verts[0] # vao[o].texs[0]

\* C12: SetWindowSize(w, h) sets the viewport width and height to its
\* arguments and changes nothing else: the stored positions and UVs of every
\* object, every freeVert and maxVert and the registry are as before (stored
\* data is not renormalised); a later AddSquare or ModifyVertSquare on a live
\* object stores positions converted with the width and height of that time
C12_SetWindowSizeOnlyViewport ==
    [][/\ Did("SetWindowSize") =>
             /\ windowWidth' = F(last'.args[1])
             /\ windowHeight' = F(last'.args[2])
             /\ UNCHANGED <<vao, freeVert, maxVert, renderObjects, texture>>
       /\ \A o \in Objs :
             /\ (Did("AddSquare") /\ last'.obj = o /\ ~panicked' /\ Live(o)) =>
                    LET pa == last'.args[1] IN
                    HoldsQuad(vao'[o].verts, last'.ret,
                              PixToScreenIn(windowWidth, windowHeight,
                                            AddVerts(F(pa[1]), F(pa[2]), F(pa[3]))))
             /\ (Did("ModifyVertSquare") /\ last'.obj = o /\ Live(o)
                   /\ last'.index \in returned[o]) =>
                    LET pa == last'.args[1] IN
                    HoldsQuad(vao'[o].verts, last'.index,
                              PixToScreenIn(windowWidth, windowHeight,
                                            ModVerts(F(pa[1]), F(pa[2]), F(pa[3]))))
       /\ ~Did("SetWindowSize") => UNCHANGED <<windowWidth, windowHeight>>]_vars

\* the same square was added before and after SetWindowSize(4, 2): the first
\* quad is still stored as converted for 800 x 600, the second as converted
\* for 4 x 2
C12_Witness ==
    \E o \in Objs :
        /\ last.op = "AddSquare" /\ last.obj = o /\ ~panicked /\ last.ret = 6 /\ Live(o)
        /\ windowWidth = F(4) /\ windowHeight = F(2)
        /\ HoldsQuad(vao[o].verts, 0,
                     PixToScreenIn(F(800), F(600), AddVerts(F(100), F(100), F(50))))
        /\ HoldsQuad(vao[o].verts, 6,
                     PixToScreenIn(F(4), F(2), AddVerts(F(100), F(100), F(50))))
        /\ vao[o].verts[0] # vao[o].verts[6]

\* the transform of object o: its active translation and rotation
Transform(v) == <<v.translation, v.rotation>>

C14_OverflowLeavesState ==
    [][(Did("AddSquare") /\ panicked') =>
          /\ last'.calls = <<>>
          /\ last'.ret = NoRet
          /\ UNCHANGED <<vao, freeVert, maxVert, texture, renderObjects,
                         windowWidth, windowHeight>>]_vars

\* capacity 7: the second AddSquare panicked at freeVert 6; the first quad is
\* stored and the one slot left, which the write would have reached, is
\* unwritten
C14_Witness ==
    \E o \in Objs :
        /\ last.op = "AddSquare" /\ last.obj = o /\ panicked
        /\ maxVert[o] = 7 /\ freeVert[o] = 6 /\ Live(o)
        /\ vao[o].verts[5] # Unwritten
        /\ vao[o].verts[6] = Unwritten /\ vao[o].texs[6] = Unwritten
        /\ vao[o].vertNum = 6

\* C15: AddSquare and ModifyVertSquare build the same quad for the same
\* arguments: the 6 positions of ModifyVertSquare(i, x, y, width) are those
\* of AddSquare(x, y, ..., width, ...), and a ModifyVertSquare(i, x, y, width)
\* made right after i = AddSquare(x, y, xTex, yTex, width, widthTex) on a live
\* object leaves the stored positions of the object unchanged
C15_AddAndModifySameGeometry ==
    [][\A o \in Objs :
          (/\ Did("ModifyVertSquare") /\ last'.obj = o /\ Live(o)
           /\ last.op = "AddSquare" /\ last.obj = o
           /\ last.ret = last'.index /\ last.args[1] = last'.args[1]) =>
              LET pa == last'.args[1] IN
              /\ ModVerts(F(pa[1]), F(pa[2]), F(pa[3])) = AddVerts(F(pa[1]), F(pa[2]), F(pa[3]))
              /\ vao'[o].verts = vao[o].verts]_vars

\* the operations that rewrite a square in place
RewritesSquare == {"ModifyVertSquare", "ModifyTexSquare", "ModifySquare", "ClearSquare"}

\* a Modify* or ClearSquare call with index i on object o writes at i only,
\* i lies in the allocated range, which lies in the buffer, and the stored
\* data outside [i, i+6) and of the other objects is unchanged
WritesInsideAllocated(o, i) ==
    /\ \A k \in 1..Len(last'.calls) : last'.calls[k].o = o /\ last'.calls[k].n = i
    /\ 0 <= i /\ i + 6 <= freeVert[o]
    /\ freeVert[o] <= maxVert[o]
    /\ SameOutside(vao[o].verts, vao'[o].verts, i)
    /\ SameOutside(vao[o].texs, vao'[o].texs, i)
    /\ \A p \in Objs \ {o} : vao'[p] = vao[p]

\* C16 as stated: when the index passed to ModifyVertSquare, ModifyTexSquare,
\* ModifySquare or ClearSquare was returned by an earlier AddSquare on the
\* same object, the call writes only the slots [index, index+6), which lie
\* inside [0, freeVert) and so inside [0, maxVert), and the stored data of
\* every other quad is unchanged
C16_ReturnedIndexWritesInRange ==
    [][\A o \in Objs :
          (/\ ops' = ops + 1 /\ last'.op \in RewritesSquare /\ last'.obj = o
           /\ last'.index \in everReturned[o]) =>
              WritesInsideAllocated(o, last'.index)]_vars

\* C16 amended: the same, for an index returned by AddSquare on the object
\* since its most recent CreateRenderObject; an index returned before the
\* object was created again refers to the buffer it had then
C16_IndexOfThisCreationWritesInRange ==
    [][\A o \in Objs :
          (/\ ops' = ops + 1 /\ last'.op \in RewritesSquare /\ last'.obj = o
           /\ last'.index \in returned[o]) =>
              WritesInsideAllocated(o, last'.index)]_vars

\* the second of two squares of a full buffer was rewritten by ModifySquare:
\* the first one is as AddSquare stored it
C16_Witness ==
    \E o \in Objs :
        /\ last.op = "ModifySquare" /\ last.obj = o /\ last.index = 6
        /\ returned[o] = {0, 6} /\ Live(o)
        /\ freeVert[o] = 12 /\ maxVert[o] = 12
        /\ HoldsQuad(vao[o].verts, 6, PixToScreen(ModVerts(F(100), F(100), F(50))))
        /\ HoldsQuad(vao[o].verts, 0, AddSquareVerts(<<0, 0, 0>>))
        /\ HoldsQuad(vao[o].texs, 0, SquareTexs(o, <<2, 4, 2>>))

\* no two elements of the sequence are equal
NoDuplicates(seq) ==
    \A j, k \in 1..Len(seq) : j # k => seq[j] # seq[k]

\* C17: no render object is used after its deletion: a Render draws no
\* object whose VAO a DeleteRenderObjects has deleted, a DeleteRenderObjects
\* invokes Delete on no object whose VAO is already deleted, and no object is
\* registered, drawn in one Render or deleted in one DeleteRenderObjects more
\* than once, also when CreateRenderObject is called twice with one object
C17_NoUseAfterDelete ==
    [][/\ Did("Render") =>
             LET draws == Draws(last'.calls) IN
             /\ \A k \in 1..Len(draws) : ~vao[draws[k].o].deleted
             /\ NoDuplicates(ObjectsOf(draws))
       /\ Did("DeleteRenderObjects") =>
             /\ \A k \in 1..Len(last'.calls) : ~vao[last'.calls[k].o].deleted
             /\ NoDuplicates(ObjectsOf(last'.calls))
       /\ NoDuplicates(renderObjects')]_vars

\* C18: the GL calls of one Render are, in this order: one clear of the
\* colour buffer, one draw call per registry entry in registry order, one
\* Poll of the window after the last draw call; Render changes no freeVert
\* or maxVert, no stored positions or UVs and no registry entry
C18_RenderClearsDrawsPolls ==
    [][Did("Render") =>
          LET calls == last'.calls
              n == Len(renderObjects)
          IN
          /\ Len(calls) = n + 2
          /\ calls[1] = Call("Clear", 0, 0)
          /\ \A i \in 1..n : IsDraw(calls[i + 1]) /\ calls[i + 1].o = renderObjects[i]
          /\ calls[n + 2] = Call("Poll", 0, 0)
          /\ UNCHANGED <<vao, freeVert, maxVert, texture, renderObjects,
                         windowWidth, windowHeight, panicked>>]_vars

\* a frame of two objects: clear, the draw of the first, of the second, poll
C18_Witness ==
    /\ last.op = "Render"
    /\ renderObjects = <<1, 2>>
    /\ freeVert[1] = 6
    /\ last.calls = <<Call("Clear", 0, 0), Call("DrawArrays", 1, 6),
                      Call("DrawArrays", 2, 0), Call("Poll", 0, 0)>>

Next ==
    \/ \E vp \in caller.viewports : SetWindowSize(vp)
    \/ \E o \in caller.objs, size \in caller.sizes, tex \in caller.textures :
            CreateRenderObject(o, size, tex)
    \/ \E o \in caller.objs, size \in caller.sizes, tex \in caller.textures :
            CreateRenderObjectFails(o, size, tex)
    \/ \E o \in caller.objs, sq \in caller.squares : AddSquare(o, sq[1], sq[2])
    \/ \E o \in caller.objs, sq \in caller.squares : AddSquareOverflow(o, sq[1], sq[2])
    \/ \E o \in caller.objs, i \in caller.indices, pa \in PosArgs : ModifyVertSquare(o, i, pa)
    \/ \E o \in caller.objs, i \in caller.indices, ta \in TexArgs : ModifyTexSquare(o, i, ta)
    \/ \E o \in caller.objs, i \in caller.indices, sq \in caller.squares :
            ModifySquare(o, i, sq[1], sq[2])
    \/ \E o \in caller.objs, i \in caller.indices : ClearSquare(o, i)
    \/ \E o \in caller.objs, ra \in caller.rots : RotateSquare(o, ra)
    \/ \E o \in caller.objs, tr \in caller.trans : TranslateSquare(o, tr)
    \/ Render
    \/ DeleteRenderObjects

Spec == Init /\ [][Next]_vars

SpecRegistry == InitRegistry /\ [][Next]_vars

SpecPix == InitPix /\ [][Next]_vars

SpecTransform == InitTransform /\ [][Next]_vars

====
